---- MODULE Spec2Model ----
(***************************************************************************)
(* Model of crypto_fetcher.fetcher.CryptoFetcher: the OHLCV single-page    *)
(* and paginated fetch paths, their retry policy, and the ticker / market  *)
(* list operations, driven by a nondeterministic exchange connector.       *)
(*                                                                         *)
(* A candle is modelled by its timestamp (candle[0]); the five price and   *)
(* volume fields are carried through the code unchanged and never read.    *)
(* An Optional[int] is a sequence: <<>> is None, <<v>> is the integer v.   *)
(***************************************************************************)
EXTENDS Integers, Sequences, FiniteSets, TLC

VARIABLES
    exchanges,      \* self.exchanges: names of the initialized connectors
    op,             \* the public method called last ("none" before any call)
    pc,             \* position of that call: "idle", "single", "until", "latest", "tickers", "done", "failed"
    req,            \* arguments of that call
    all_data,       \* _fetch_ohlcv_paginated: all_data (raw candles gathered)
    remaining,      \* _fetch_ohlcv_paginated: remaining
    max_limit,      \* _fetch_paginated_*: max_limit (lowered to 50 by a retry)
    current_until,  \* _fetch_paginated_until: current_until
    current_since,  \* _fetch_paginated_latest: current_since (Optional)
    completed,      \* progress bar task: completed
    symbols_left,   \* fetch_multiple_tickers: the symbols the loop has still to visit
    calls,          \* connector calls issued by the call, in order
    contract,       \* every page returned so far met the page fetcher's contract
    result,         \* value returned by the call (when pc = "done")
    error           \* exception raised by the call (when pc = "failed"), <<>> otherwise

vars == <<exchanges, op, pc, req, all_data, remaining, max_limit, current_until,
          current_since, completed, symbols_left, calls, contract, result, error>>

(***************************************************************************)
(* Bounds of the model                                                     *)
(***************************************************************************)
\* page fetches one fetch_ohlcv call may issue in the model
MaxFetches == 4
\* index of the newest candle the exchange holds: its open time is NowIdx * timeframe
NowIdx == 590
\* the largest total_limit requested
BigLimit == 500
\* how far past PageLimit the medium multi-page request goes
OverPage == 60
\* the longest symbol list given to fetch_multiple_tickers
MaxSymbols == 2

(***************************************************************************)
(* Static configuration                                                    *)
(***************************************************************************)
None == <<>>

Some(v) == <<v>>

\* Python truthiness of an Optional[int]: `if until:` / `if since:`
Truthy(o) == o # None /\ o[1] # 0

Min(a, b) == IF a <= b THEN a ELSE b

ConfiguredExchanges == {"binance", "coinbase", "kraken", "bybit", "okx", "huobi", "kucoin"}

EXCHANGE_LIMITS ==
    [binance |-> 1000, coinbase |-> 300, kraken |-> 720, okx |-> 300,
     kucoin |-> 1500, bybit |-> 200, huobi |-> 2000]

TIMEFRAME_MS ==
    [1m |-> 60 * 1000, 5m |-> 5 * 60 * 1000, 15m |-> 15 * 60 * 1000,
     30m |-> 30 * 60 * 1000, 1h |-> 60 * 60 * 1000, 4h |-> 4 * 60 * 60 * 1000,
     1d |-> 24 * 60 * 60 * 1000, 1w |-> 7 * 24 * 60 * 60 * 1000]

DefaultLimit == 200

RetryFloor == 50

\* exchange.id of the ccxt connector registered under each name
ExchangeId ==
    [binance |-> "binance", coinbase |-> "coinbase", kraken |-> "kraken",
     bybit |-> "bybit", okx |-> "okx", huobi |-> "huobi", kucoin |-> "kucoin"]

(***************************************************************************)
(* Inputs of the model                                                     *)
(***************************************************************************)
\* connectors whose load_markets() may fail during _initialize_exchanges
MayFailToLoad == {"coinbase"}

RequestExchanges == {"bybit", "coinbase", "invalid_exchange"}

\* "2m" is no key of TIMEFRAME_MS
RequestTimeframes == {"1m", "2m"}

RequestSymbols == {"BTC/USDT", "DOGE/XYZ"}

(***************************************************************************)
(* Pure helpers of CryptoFetcher                                           *)
(***************************************************************************)
_get_timeframe_ms(timeframe) ==
    IF timeframe \in DOMAIN TIMEFRAME_MS THEN TIMEFRAME_MS[timeframe] ELSE 60 * 60 * 1000

_get_exchange_max_limit(exchange_name) ==
    IF exchange_name \in DOMAIN EXCHANGE_LIMITS
    THEN EXCHANGE_LIMITS[exchange_name]
    ELSE DefaultLimit

\* a validation against the configured names instead of the initialized connectors
_validate_exchange_configured(exchange_name) == exchange_name \in ConfiguredExchanges

\* TRUE when _validate_exchange returns, FALSE when it raises
_validate_exchange(exchange_name) == exchange_name \in exchanges

_filter_by_until(ohlcv, until) == SelectSeq(ohlcv, LAMBDA candle : candle <= until)

_convert_ohlcv_to_dict(ohlcv) == [i \in DOMAIN ohlcv |-> [timestamp |-> ohlcv[i]]]

\* a retry policy whose floor test is off by one
_retry_at_floor_too(e, page_limit, maxlimit) == page_limit >= RetryFloor

\* a retry policy that retries whatever the page size
_retry_always(e, page_limit, maxlimit) == TRUE

_retry_with_smaller_limit(e, page_limit, maxlimit) == page_limit > RetryFloor

\* a page size that forgets how many candles remain
PageSizeIgnoringRemaining(rem, maxlimit) == maxlimit

\* `page_limit = min(remaining, max_limit)`
PageSize(rem, maxlimit) == Min(rem, maxlimit)

\* a routing test that sends a request of exactly max_limit to pagination
NeedsPaginationAtLimit(limit, maxlimit) == limit >= maxlimit

\* `if limit > max_limit:` in fetch_ohlcv
NeedsPagination(limit, maxlimit) == limit > maxlimit

\* an emptiness test that never stops the loop
NeverEmptyPage(page) == FALSE

\* `if not page_data:` / `if not filtered_data:`
IsEmptyPage(page) == Len(page) = 0

\* `while remaining > 0 and current_until > 0:`
UntilLoopRuns(rem, cur_until) == rem > 0 /\ cur_until > 0

\* `while remaining > 0:`
LatestLoopRuns(rem) == rem > 0

(***************************************************************************)
(* The exchange connector (ccxt), external to the repository: an           *)
(* nondeterministic page fetcher.                                          *)
(***************************************************************************)
\* open time of the newest candle the exchange holds for a timeframe
Now(tf) == NowIdx * tf

Candles(start, n, tf) == [i \in 1..n |-> start + (i - 1) * tf]

Reverse(s) == [i \in 1..Len(s) |-> s[Len(s) + 1 - i]]

\* number of candles in start, start + tf, ... that are not after Now, at most n
Available(start, n, tf) ==
    IF start > Now(tf) THEN 0 ELSE Min(n, ((Now(tf) - start) \div tf) + 1)

\* n candles from `since` on, or the newest n when no `since` is passed
PageOf(n, since, tf) ==
    IF since = None
    THEN Candles(Now(tf) - (n - 1) * tf, n, tf)
    ELSE Candles(since[1], Available(since[1], n, tf), tf)

\* what exchange.fetch_ohlcv(symbol, timeframe, limit=limit[, since=since]) may do
FetchOhlcvOutcomes(limit, since, tf) ==
    {[raised |-> TRUE, page |-> <<>>, cause |-> "NetworkError"]}
    \cup {[raised |-> FALSE, page |-> PageOf(n, since, tf), cause |-> "none"] :
             n \in {k \in {0, limit - 1, limit, limit + 1} : k >= 0}}
    \cup {[raised |-> FALSE, page |-> PageOf(limit, None, tf), cause |-> "none"],
          [raised |-> FALSE, page |-> Reverse(PageOf(limit, since, tf)), cause |-> "none"]}

\* the page fetcher's contract: ascending, contiguous, no longer than limit,
\* starting at or after since, and ending at the newest candle when no since
MeetsContract(page, limit, since, tf) ==
    /\ Len(page) <= limit
    /\ \A i \in 1..(Len(page) - 1) : page[i + 1] = page[i] + tf
    /\ (since # None /\ page # <<>>) => page[1] >= since[1]
    /\ (since = None /\ page # <<>>) => page[Len(page)] = Now(tf)

OhlcvCall(limit, since, r, kept) ==
    [op |-> "fetch_ohlcv", limit |-> limit, since |-> since, raised |-> r.raised,
     n |-> Len(r.page), kept |-> kept,
     first |-> IF r.page = <<>> THEN None ELSE Some(r.page[1])]

(***************************************************************************)
(* Initial state: after CryptoFetcher.__init__                             *)
(***************************************************************************)
\* _initialize_exchanges keeps every configured connector whose load_markets() succeeds
Init ==
    /\ \E failed \in SUBSET MayFailToLoad : exchanges = ConfiguredExchanges \ failed
    /\ op = "none"
    /\ pc = "idle"
    /\ req = <<>>
    /\ all_data = <<>>
    /\ remaining = 0
    /\ max_limit = 0
    /\ current_until = 0
    /\ current_since = None
    /\ completed = 0
    /\ symbols_left = <<>>
    /\ calls = <<>>
    /\ contract = TRUE
    /\ result = <<>>
    /\ error = None

\* the engine is synchronous: a public method is entered only when none is running
NoCallRunning == pc \in {"idle", "done", "failed"}

Raised(type, cause) == [type |-> type, cause |-> cause]

\* total_limit values requested of an exchange whose page limit is m
RequestLimits(m) == {RetryFloor, RetryFloor + 1, m, m + 1, m + OverPage, BigLimit}

RequestUntils(tf) == {None, Some(0), Some(Now(tf) - tf)}

(***************************************************************************)
(* fetch_ohlcv: entry, up to the first page fetch                          *)
(***************************************************************************)
fetch_ohlcv(exchange_name, timeframe, limit, until) ==
    /\ NoCallRunning
    /\ op' = "fetch_ohlcv"
    /\ req' = [exchange_name |-> exchange_name, timeframe |-> timeframe,
               limit |-> limit, until |-> until]
    /\ calls' = <<>>
    /\ contract' = TRUE
    /\ all_data' = <<>>
    /\ completed' = 0
    /\ symbols_left' = <<>>
    /\ current_since' = None
    /\ UNCHANGED exchanges
    /\ IF ~_validate_exchange(exchange_name)
       THEN /\ pc' = "failed"
            /\ error' = Some(Raised("ExchangeNotAvailableError", "none"))
            /\ result' = <<>>
            /\ remaining' = 0
            /\ max_limit' = 0
            /\ current_until' = 0
       ELSE IF NeedsPagination(limit, _get_exchange_max_limit(exchange_name))
       THEN \* _fetch_ohlcv_paginated
            /\ max_limit' = _get_exchange_max_limit(ExchangeId[exchange_name])
            /\ remaining' = limit
            /\ error' = None
            /\ IF Truthy(until)
               THEN /\ current_until' = until[1]
                    /\ IF UntilLoopRuns(limit, until[1])
                       THEN pc' = "until" /\ result' = <<>>
                       ELSE pc' = "done" /\ result' = _convert_ohlcv_to_dict(<<>>)
               ELSE /\ current_until' = 0
                    /\ IF LatestLoopRuns(limit)
                       THEN pc' = "latest" /\ result' = <<>>
                       ELSE pc' = "done" /\ result' = _convert_ohlcv_to_dict(<<>>)
       ELSE /\ pc' = "single"
            /\ error' = None
            /\ result' = <<>>
            /\ remaining' = 0
            /\ max_limit' = 0
            /\ current_until' = 0

\* fetch_ohlcv, single-page path: the one page fetch and the return
fetch_ohlcv_single ==
    /\ pc = "single"
    /\ LET timeframe_ms == _get_timeframe_ms(req.timeframe)
           since == IF Truthy(req.until)
                    THEN Some(req.until[1] - (req.limit * timeframe_ms))
                    ELSE None
       IN \E r \in FetchOhlcvOutcomes(req.limit, since, timeframe_ms) :
            LET ohlcv == IF Truthy(req.until)
                         THEN _filter_by_until(r.page, req.until[1])
                         ELSE r.page
            IN /\ calls' = Append(calls, OhlcvCall(req.limit, since, r, Len(ohlcv)))
               /\ contract' = (contract /\ (r.raised \/ MeetsContract(r.page, req.limit, since, timeframe_ms)))
               /\ IF r.raised
                  THEN /\ pc' = "failed"
                       /\ error' = Some(Raised("RuntimeError", r.cause))
                       /\ result' = <<>>
                  ELSE /\ pc' = "done"
                       /\ error' = None
                       /\ result' = _convert_ohlcv_to_dict(ohlcv)
    /\ UNCHANGED <<exchanges, op, req, symbols_left, all_data, remaining, max_limit, current_until,
                   current_since, completed>>

\* a page fetch that never passes `since` on
_fetch_single_page_no_since(since) == None

\* `if since:` in _fetch_single_page: a since of 0 is not passed on
_fetch_single_page_since(since) == IF Truthy(since) THEN since ELSE None

\* _fetch_paginated_until: one iteration of the loop, and the return when it ends
_fetch_paginated_until ==
    /\ pc = "until"
    /\ Len(calls) < MaxFetches
    /\ LET timeframe_ms == _get_timeframe_ms(req.timeframe)
           until == req.until[1]
           page_limit == PageSize(remaining, max_limit)
           since_time == current_until - (page_limit * timeframe_ms)
           since == _fetch_single_page_since(Some(since_time))
       IN \E r \in FetchOhlcvOutcomes(page_limit, since, timeframe_ms) :
            LET page_data == r.page
                filtered_data == _filter_by_until(page_data, until)
                broke == ~r.raised /\ (IsEmptyPage(page_data) \/ IsEmptyPage(filtered_data))
                \* filtered_data[0][0] of an empty list raises IndexError
                excepted == r.raised \/ (~broke /\ filtered_data = <<>>)
                cause == IF r.raised THEN r.cause ELSE "IndexError"
                new_data == all_data \o filtered_data
                new_remaining == remaining - Len(filtered_data)
                new_until == filtered_data[1] - timeframe_ms
            IN /\ calls' = Append(calls, OhlcvCall(page_limit, since, r, Len(filtered_data)))
               /\ contract' = (contract /\ (r.raised \/ MeetsContract(page_data, page_limit, since, timeframe_ms)))
               /\ IF excepted
                  THEN /\ UNCHANGED <<all_data, remaining, completed, current_until>>
                       /\ IF _retry_with_smaller_limit(cause, page_limit, max_limit)
                          THEN /\ max_limit' = RetryFloor
                               /\ pc' = "until"
                               /\ UNCHANGED <<error, result>>
                          ELSE /\ pc' = "failed"
                               /\ error' = Some(Raised("RuntimeError", cause))
                               /\ result' = <<>>
                               /\ UNCHANGED max_limit
                  ELSE IF broke
                  THEN /\ pc' = "done"
                       /\ result' = _convert_ohlcv_to_dict(all_data)
                       /\ UNCHANGED <<all_data, remaining, completed, current_until,
                                      max_limit, error>>
                  ELSE /\ all_data' = new_data
                       /\ remaining' = new_remaining
                       /\ completed' = Len(new_data)
                       /\ current_until' = new_until
                       /\ UNCHANGED <<max_limit, error>>
                       /\ IF UntilLoopRuns(new_remaining, new_until)
                          THEN pc' = "until" /\ UNCHANGED result
                          ELSE pc' = "done" /\ result' = _convert_ohlcv_to_dict(new_data)
    /\ UNCHANGED <<exchanges, op, req, symbols_left, current_since>>

\* _fetch_paginated_latest: one iteration of the loop, and the return when it ends
_fetch_paginated_latest ==
    /\ pc = "latest"
    /\ Len(calls) < MaxFetches
    /\ LET timeframe_ms == _get_timeframe_ms(req.timeframe)
           page_limit == PageSize(remaining, max_limit)
           since == _fetch_single_page_since(current_since)
       IN \E r \in FetchOhlcvOutcomes(page_limit, since, timeframe_ms) :
            LET page_data == r.page
                broke == ~r.raised /\ IsEmptyPage(page_data)
                \* page_data[0][0] of an empty list raises IndexError
                excepted == r.raised \/ (~broke /\ page_data = <<>>)
                cause == IF r.raised THEN r.cause ELSE "IndexError"
                new_data == all_data \o page_data
                new_remaining == remaining - Len(page_data)
            IN /\ calls' = Append(calls, OhlcvCall(page_limit, since, r, Len(page_data)))
               /\ contract' = (contract /\ (r.raised \/ MeetsContract(page_data, page_limit, since, timeframe_ms)))
               /\ IF excepted
                  THEN /\ UNCHANGED <<all_data, remaining, completed, current_since>>
                       /\ IF _retry_with_smaller_limit(cause, page_limit, max_limit)
                          THEN /\ max_limit' = RetryFloor
                               /\ pc' = "latest"
                               /\ UNCHANGED <<error, result>>
                          ELSE /\ pc' = "failed"
                               /\ error' = Some(Raised("RuntimeError", cause))
                               /\ result' = <<>>
                               /\ UNCHANGED max_limit
                  ELSE IF broke
                  THEN /\ pc' = "done"
                       /\ result' = _convert_ohlcv_to_dict(all_data)
                       /\ UNCHANGED <<all_data, remaining, completed, current_since,
                                      max_limit, error>>
                  ELSE /\ all_data' = new_data
                       /\ remaining' = new_remaining
                       /\ completed' = Len(new_data)
                       /\ current_since' = Some(page_data[1] - timeframe_ms)
                       /\ UNCHANGED <<max_limit, error>>
                       /\ IF LatestLoopRuns(new_remaining)
                          THEN pc' = "latest" /\ UNCHANGED result
                          ELSE pc' = "done" /\ result' = _convert_ohlcv_to_dict(new_data)
    /\ UNCHANGED <<exchanges, op, req, symbols_left, current_until>>

(***************************************************************************)
(* Ticker and market-list operations                                       *)
(***************************************************************************)
\* str(e).lower(), word by word
LowerWord(w) ==
    CASE w = "Symbol" -> "symbol"
      [] w = "Not" -> "not"
      [] w = "Found" -> "found"
      [] w = "Invalid" -> "invalid"
      [] w = "Request" -> "request"
      [] OTHER -> w

Lower(msg) == [i \in DOMAIN msg |-> LowerWord(msg[i])]

\* `phrase in msg`, at the granularity of words
Contains(msg, phrase) ==
    \E i \in 1..(Len(msg) - Len(phrase) + 1) : SubSeq(msg, i, i + Len(phrase) - 1) = phrase

\* the ticker ccxt returns for a symbol (distinct values per field)
RawTicker(symbol) ==
    [symbol |-> symbol, last |-> 10, bid |-> 9, ask |-> 11, high |-> 12, low |-> 8,
     baseVolume |-> 100, quoteVolume |-> 1000, change |-> 1, percentage |-> 2,
     timestamp |-> 60000, datetime |-> "1970-01-01T00:01:00.000Z"]

\* what exchange.fetch_ticker(symbol) may do
FetchTickerOutcomes(symbol) ==
    {[raised |-> FALSE, ticker |-> RawTicker(symbol), message |-> <<>>]}
    \cup {[raised |-> TRUE, ticker |-> <<>>, message |-> m] :
             m \in {<<"bybit", "Symbol", "Not", "Found">>, <<"Invalid", "symbol", symbol>>,
                    <<"Request", "timeout">>}}

\* what exchange.load_markets() may do: the market table, or an exception
LoadMarketsOutcomes ==
    {[raised |-> FALSE, markets |-> <<"BTC/USDT", "ETH/USDT">>, message |-> <<>>],
     [raised |-> TRUE, markets |-> <<>>, message |-> <<"Request", "timeout">>]}

fetch_ticker(exchange_name, symbol) ==
    /\ NoCallRunning
    /\ op' = "fetch_ticker"
    /\ req' = [exchange_name |-> exchange_name, symbol |-> symbol]
    /\ IF ~_validate_exchange(exchange_name)
       THEN /\ pc' = "failed"
            /\ error' = Some(Raised("ExchangeNotAvailableError", "none"))
            /\ result' = <<>>
            /\ calls' = <<>>
       ELSE \E r \in FetchTickerOutcomes(symbol) :
            /\ calls' = <<[op |-> "fetch_ticker", symbol |-> symbol, raised |-> r.raised]>>
            /\ IF ~r.raised
               THEN /\ pc' = "done"
                    /\ error' = None
                    /\ result' = [symbol |-> r.ticker.symbol, last |-> r.ticker.last,
                                  bid |-> r.ticker.bid, ask |-> r.ticker.ask,
                                  high |-> r.ticker.high, low |-> r.ticker.low,
                                  volume |-> r.ticker.baseVolume,
                                  quote_volume |-> r.ticker.quoteVolume,
                                  change |-> r.ticker.change,
                                  percentage |-> r.ticker.percentage,
                                  timestamp |-> r.ticker.timestamp,
                                  datetime |-> r.ticker.datetime]
               ELSE /\ pc' = "failed"
                    /\ result' = <<>>
                    /\ error' = IF \/ Contains(Lower(r.message), <<"not", "found">>)
                                   \/ Contains(Lower(r.message), <<"invalid", "symbol">>)
                                THEN Some(Raised("SymbolNotFoundError", r.message))
                                ELSE Some(Raised("RuntimeError", r.message))
    /\ contract' = TRUE
    /\ all_data' = <<>>
    /\ remaining' = 0
    /\ max_limit' = 0
    /\ current_until' = 0
    /\ current_since' = None
    /\ completed' = 0
    /\ symbols_left' = <<>>
    /\ UNCHANGED exchanges

get_exchange_symbols(exchange_name) ==
    /\ NoCallRunning
    /\ op' = "get_exchange_symbols"
    /\ req' = [exchange_name |-> exchange_name]
    /\ IF ~_validate_exchange(exchange_name)
       THEN /\ pc' = "failed"
            /\ error' = Some(Raised("ExchangeNotAvailableError", "none"))
            /\ result' = <<>>
            /\ calls' = <<>>
       ELSE \E r \in LoadMarketsOutcomes :
            /\ calls' = <<[op |-> "load_markets", raised |-> r.raised]>>
            /\ IF ~r.raised
               THEN /\ pc' = "done"
                    /\ error' = None
                    /\ result' = r.markets
               ELSE /\ pc' = "failed"
                    /\ result' = <<>>
                    /\ error' = Some(Raised("RuntimeError", r.message))
    /\ contract' = TRUE
    /\ all_data' = <<>>
    /\ remaining' = 0
    /\ max_limit' = 0
    /\ current_until' = 0
    /\ current_since' = None
    /\ completed' = 0
    /\ symbols_left' = <<>>
    /\ UNCHANGED exchanges

\* a membership test that takes every symbol for listed
AnySymbolListed(symbol, symbols) == TRUE

\* `symbol in symbols`
SymbolListed(symbol, symbols) == \E i \in DOMAIN symbols : symbols[i] = symbol

\* validate_symbol: get_exchange_symbols inside `try`, any exception gives False
validate_symbol(exchange_name, symbol) ==
    /\ NoCallRunning
    /\ op' = "validate_symbol"
    /\ req' = [exchange_name |-> exchange_name, symbol |-> symbol]
    /\ pc' = "done"
    /\ error' = None
    /\ IF ~_validate_exchange(exchange_name)
       THEN \* ExchangeNotAvailableError, caught
            /\ result' = FALSE
            /\ calls' = <<>>
       ELSE \E r \in LoadMarketsOutcomes :
            /\ calls' = <<[op |-> "load_markets", raised |-> r.raised, markets |-> r.markets]>>
            /\ IF ~r.raised
               THEN result' = SymbolListed(symbol, r.markets)
               ELSE \* RuntimeError, caught
                    result' = FALSE
    /\ contract' = TRUE
    /\ all_data' = <<>>
    /\ remaining' = 0
    /\ max_limit' = 0
    /\ current_until' = 0
    /\ current_since' = None
    /\ completed' = 0
    /\ symbols_left' = <<>>
    /\ UNCHANGED exchanges

\* the dictionary fetch_ticker builds from a ccxt ticker
TickerDict(ticker) ==
    [symbol |-> ticker.symbol, last |-> ticker.last, bid |-> ticker.bid,
     ask |-> ticker.ask, high |-> ticker.high, low |-> ticker.low,
     volume |-> ticker.baseVolume, quote_volume |-> ticker.quoteVolume,
     change |-> ticker.change, percentage |-> ticker.percentage,
     timestamp |-> ticker.timestamp, datetime |-> ticker.datetime]

\* fetch_ticker as called from fetch_multiple_tickers: what it returns or raises
\* when the connector answers r
_fetch_ticker_result(exchange_name, symbol, r) ==
    IF ~_validate_exchange(exchange_name)
    THEN [raised |-> TRUE, value |-> Raised("ExchangeNotAvailableError", "none")]
    ELSE IF ~r.raised
    THEN [raised |-> FALSE, value |-> TickerDict(r.ticker)]
    ELSE [raised |-> TRUE,
          value |-> IF \/ Contains(Lower(r.message), <<"not", "found">>)
                       \/ Contains(Lower(r.message), <<"invalid", "symbol">>)
                    THEN Raised("SymbolNotFoundError", r.message)
                    ELSE Raised("RuntimeError", r.message)]

\* an entry of the result is an {'error': ...} entry
IsErrorEntry(entry) == "error" \in DOMAIN entry

\* an assignment that drops what the dictionary held
SetOnlyItem(results, symbol, entry) == [s \in {symbol} |-> entry]

\* `results[symbol] = ...` on a dictionary
SetItem(results, symbol, entry) ==
    [s \in DOMAIN results \cup {symbol} |-> IF s = symbol THEN entry ELSE results[s]]

\* the symbol lists a client passes
SymbolLists == UNION {[1..n -> RequestSymbols] : n \in 0..MaxSymbols}

\* fetch_multiple_tickers: entry, `results = {}`; an empty list returns at once
fetch_multiple_tickers(exchange_name, symbols) ==
    /\ NoCallRunning
    /\ op' = "fetch_multiple_tickers"
    /\ req' = [exchange_name |-> exchange_name, symbols |-> symbols]
    /\ result' = <<>>
    /\ symbols_left' = symbols
    /\ pc' = IF symbols = <<>> THEN "done" ELSE "tickers"
    /\ error' = None
    /\ calls' = <<>>
    /\ contract' = TRUE
    /\ all_data' = <<>>
    /\ remaining' = 0
    /\ max_limit' = 0
    /\ current_until' = 0
    /\ current_since' = None
    /\ completed' = 0
    /\ UNCHANGED exchanges

\* fetch_multiple_tickers: one round of the loop, fetch_ticker for the next
\* symbol with every exception turned into an {'error': ...} entry, and the
\* return after the last symbol
fetch_multiple_tickers_symbol ==
    /\ pc = "tickers"
    /\ LET symbol == Head(symbols_left)
           valid == _validate_exchange(req.exchange_name)
       IN \E r \in IF valid THEN FetchTickerOutcomes(symbol)
                   ELSE {[raised |-> TRUE, ticker |-> <<>>, message |-> <<>>]} :
            LET t == _fetch_ticker_result(req.exchange_name, symbol, r)
            IN /\ result' = SetItem(result, symbol,
                                    IF t.raised THEN [error |-> t.value] ELSE t.value)
               /\ calls' = IF valid
                           THEN Append(calls, [op |-> "fetch_ticker", symbol |-> symbol,
                                               raised |-> r.raised])
                           ELSE calls
    /\ symbols_left' = Tail(symbols_left)
    /\ pc' = IF Tail(symbols_left) = <<>> THEN "done" ELSE "tickers"
    /\ UNCHANGED <<exchanges, op, req, all_data, remaining, max_limit, current_until,
                   current_since, completed, contract, error>>

(***************************************************************************)
(* The calls a client may make                                             *)
(***************************************************************************)
FetchOhlcv ==
    \E exchange_name \in RequestExchanges, timeframe \in RequestTimeframes :
        \E limit \in RequestLimits(_get_exchange_max_limit(exchange_name)),
           until \in RequestUntils(_get_timeframe_ms(timeframe)) :
            fetch_ohlcv(exchange_name, timeframe, limit, until)

FetchTicker ==
    \E exchange_name \in RequestExchanges, symbol \in RequestSymbols :
        fetch_ticker(exchange_name, symbol)

GetExchangeSymbols ==
    \E exchange_name \in RequestExchanges : get_exchange_symbols(exchange_name)

ValidateSymbol ==
    \E exchange_name \in RequestExchanges, symbol \in RequestSymbols :
        validate_symbol(exchange_name, symbol)

FetchMultipleTickers ==
    \E exchange_name \in RequestExchanges, symbols \in SymbolLists :
        fetch_multiple_tickers(exchange_name, symbols)

Next ==
    \/ FetchOhlcv
    \/ fetch_ohlcv_single
    \/ _fetch_paginated_until
    \/ _fetch_paginated_latest
    \/ FetchTicker
    \/ GetExchangeSymbols
    \/ ValidateSymbol
    \/ FetchMultipleTickers
    \/ fetch_multiple_tickers_symbol

Spec == Init /\ [][Next]_vars

(***************************************************************************)
(* Vocabulary of the properties                                            *)
(***************************************************************************)
OhlcvReturned == op = "fetch_ohlcv" /\ pc = "done"

OhlcvFinished == op = "fetch_ohlcv" /\ pc \in {"done", "failed"}

ValidOhlcv == op = "fetch_ohlcv" /\ req.exchange_name \in exchanges

PageLimit == _get_exchange_max_limit(req.exchange_name)

SinglePagePath == ValidOhlcv /\ req.limit <= PageLimit

MultiPagePath == ValidOhlcv /\ req.limit > PageLimit

ReqTimeframeMs == _get_timeframe_ms(req.timeframe)

\* an `until` argument was passed (it is not None)
UntilGiven == req.until # None

Ceil(a, b) == (a + b - 1) \div b

(***************************************************************************)
(* C1: a request served by a page fetcher that keeps its contract returns  *)
(* candles strictly ascending in timestamp, consecutive ones exactly one   *)
(* timeframe apart (no duplicate, no gap, no page out of order).           *)
(***************************************************************************)
C1_AscendingContiguous ==
    (OhlcvReturned /\ contract) =>
        \A i \in 1..(Len(result) - 1) :
            result[i + 1].timestamp = result[i].timestamp + ReqTimeframeMs

(***************************************************************************)
(* C2: when an `until` value is given, every returned candle has           *)
(* timestamp <= until, whatever the page fetcher returned.                 *)
(***************************************************************************)
C2_AllCandlesAtMostUntil ==
    (OhlcvReturned /\ UntilGiven) =>
        \A i \in 1..Len(result) : result[i].timestamp <= req.until[1]

(***************************************************************************)
(* C3: fetch_ohlcv never returns more than total_limit candles, even when  *)
(* a page fetch returns more candles than it was asked for.                *)
(***************************************************************************)
C3_AtMostTotalLimit == OhlcvReturned => Len(result) <= req.limit

LastCall == calls[Len(calls)]

InLoop == pc \in {"until", "latest"}

\* the loop condition of the running pagination mode, on the current locals
LoopRuns ==
    IF Truthy(req.until)
    THEN UntilLoopRuns(remaining, current_until)
    ELSE LatestLoopRuns(remaining)

\* the retry rule, for the calls of the paths in `scope`: a failure above the
\* floor is followed by one page fetch at the floor, one at or below it is final
RetryRule(scope) ==
    (op = "fetch_ohlcv" /\ scope) =>
        \A i \in 1..Len(calls) :
            calls[i].raised =>
                IF calls[i].limit > RetryFloor
                THEN /\ i < Len(calls) => calls[i + 1].limit = RetryFloor
                     /\ i = Len(calls) => InLoop
                ELSE i = Len(calls) /\ pc = "failed"

(***************************************************************************)
(* C4 as stated: on either path, a page fetch that fails at a page size    *)
(* above 50 is followed by one retry at page size 50, and one that fails   *)
(* at a page size of 50 or less is not retried: the call fails.            *)
(***************************************************************************)
C4_RetryOnEveryPath == RetryRule(TRUE)

(***************************************************************************)
(* C4 as amended: the retry rule holds on the multi-page path; on the      *)
(* single-page path a failed page fetch is never retried, whatever its     *)
(* size, and the call fails.                                               *)
(***************************************************************************)
C4_RetryOnMultiPagePath ==
    /\ RetryRule(MultiPagePath)
    /\ (SinglePagePath /\ calls # <<>> /\ LastCall.raised) =>
           (Len(calls) = 1 /\ pc = "failed")

C4_Witness ==
    /\ MultiPagePath
    /\ Len(calls) >= 2
    /\ calls[1].raised /\ calls[1].limit > RetryFloor
    /\ calls[2].limit = RetryFloor

(***************************************************************************)
(* C5: a page-fetch failure with no retry left (page size <= 50, or the    *)
(* failed call was the retry) ends the call in a RuntimeError wrapping the *)
(* cause and returns nothing, whatever was fetched before; after a         *)
(* successful retry the call has not failed and the loop goes on while its *)
(* condition holds.                                                        *)
(***************************************************************************)
C5_FatalOrContinue ==
    (ValidOhlcv /\ calls # <<>>) =>
        /\ (LastCall.raised /\ (LastCall.limit <= RetryFloor
                                 \/ (Len(calls) >= 2 /\ calls[Len(calls) - 1].raised))) =>
               /\ pc = "failed"
               /\ error = Some(Raised("RuntimeError", "NetworkError"))
               /\ result = <<>>
        /\ (Len(calls) >= 2 /\ calls[Len(calls) - 1].raised /\ ~LastCall.raised) =>
               /\ pc # "failed"
               /\ error = None
               /\ (LastCall.kept > 0 /\ LoopRuns) => InLoop

C5_Witness ==
    /\ MultiPagePath
    /\ Len(calls) = 3
    /\ calls[1].raised
    /\ ~calls[2].raised /\ calls[2].kept > 0
    /\ calls[3].raised
    /\ pc = "failed"

(***************************************************************************)
(* C6: a request with total_limit <= PageLimit issues exactly one page     *)
(* fetch, whether that fetch succeeds, returns nothing or fails.           *)
(***************************************************************************)
C6_SinglePageOneFetch ==
    (op = "fetch_ohlcv" /\ req.exchange_name \in exchanges
       /\ req.limit <= EXCHANGE_LIMITS[req.exchange_name]) =>
        /\ Len(calls) <= 1
        /\ pc \in {"done", "failed"} => Len(calls) = 1

C6_Witness ==
    /\ SinglePagePath
    /\ pc = "failed"
    /\ Len(calls) = 1
    /\ calls[1].limit > RetryFloor

\* no page fetch failed and every page came back with as many candles as asked
AllPagesFull ==
    \A i \in 1..Len(calls) : ~calls[i].raised /\ calls[i].n = calls[i].limit

\* the until filter dropped no candle of any page
NothingFiltered == \A i \in 1..Len(calls) : calls[i].kept = calls[i].n

\* ceil(total_limit / PageLimit) page fetches, of sizes min(remaining, PageLimit),
\* and exactly total_limit candles returned
FullPagination ==
    /\ Len(calls) = Ceil(req.limit, PageLimit)
    /\ \A i \in 1..Len(calls) :
           calls[i].limit = Min(req.limit - (i - 1) * EXCHANGE_LIMITS[req.exchange_name],
                                EXCHANGE_LIMITS[req.exchange_name])
    /\ Len(result) = req.limit

(***************************************************************************)
(* C7 as stated: a multi-page request in which no page fetch fails and     *)
(* every page comes back full issues ceil(total_limit / PageLimit) page    *)
(* fetches of sizes min(remaining, PageLimit) and returns exactly          *)
(* total_limit candles.                                                    *)
(***************************************************************************)
C7_FullPagesGiveCeilFetches ==
    (OhlcvReturned /\ MultiPagePath /\ AllPagesFull) => FullPagination

(***************************************************************************)
(* C7 as amended: the same, provided that in until mode the filter drops   *)
(* no candle of any page (none is later than until) and the loop's time    *)
(* cursor current_until stays positive.                                    *)
(***************************************************************************)
C7_FullKeptPagesGiveCeilFetches ==
    (OhlcvReturned /\ MultiPagePath /\ AllPagesFull /\ NothingFiltered
       /\ (Truthy(req.until) => current_until > 0)) => FullPagination

C7_Witness ==
    /\ OhlcvReturned /\ MultiPagePath /\ AllPagesFull /\ NothingFiltered
    /\ Truthy(req.until)
    /\ Len(calls) = 3
    /\ Len(result) = BigLimit

C9_LastCandleIsNewest ==
    (OhlcvReturned /\ req.until = None /\ contract /\ result # <<>>) =>
        result[Len(result)].timestamp = Now(ReqTimeframeMs)

(***************************************************************************)
(* C10: fetch_ohlcv, fetch_ticker and get_exchange_symbols called with a   *)
(* name that is not an initialized exchange fail at once with              *)
(* ExchangeNotAvailableError, unwrapped, and call no connector.            *)
(***************************************************************************)
C10_UnknownExchangeFailsAtOnce ==
    (op \in {"fetch_ohlcv", "fetch_ticker", "get_exchange_symbols"}
       /\ req.exchange_name \notin exchanges) =>
        /\ pc = "failed"
        /\ error = Some(Raised("ExchangeNotAvailableError", "none"))
        /\ calls = <<>>

C10_Witness ==
    /\ op = "fetch_ticker"
    /\ req.exchange_name = "invalid_exchange"
    /\ pc = "failed"
    /\ error # None /\ error[1].type = "ExchangeNotAvailableError"

\* candles kept from the pages of calls 1..k
RECURSIVE KeptUpTo(_)
KeptUpTo(k) ==
    IF k = 0 THEN 0
    ELSE KeptUpTo(k - 1) + (IF calls[k].raised THEN 0 ELSE calls[k].kept)

(***************************************************************************)
(* C11: on the multi-page path a page that is empty, or whose candles are  *)
(* all later than until, ends the call normally: nothing is raised and the *)
(* result is the candles accumulated from the pages before it (maybe none).*)
(***************************************************************************)
C11_EmptyPageEndsNormally ==
    (MultiPagePath /\ calls # <<>> /\ ~LastCall.raised /\ LastCall.kept = 0) =>
        /\ pc = "done"
        /\ error = None
        /\ result = _convert_ohlcv_to_dict(all_data)
        /\ Len(result) = KeptUpTo(Len(calls) - 1)

C11_Witness ==
    /\ MultiPagePath /\ Truthy(req.until)
    /\ Len(calls) >= 2
    /\ ~LastCall.raised /\ LastCall.n > 0 /\ LastCall.kept = 0
    /\ pc = "done"
    /\ result # <<>>

\* the size of the first page of the request
FirstPageSize == IF SinglePagePath THEN req.limit ELSE Min(req.limit, PageLimit)

(***************************************************************************)
(* C12: the first page fetch of a request has limit = its page size        *)
(* (total_limit on the single-page path, min(total_limit, PageLimit) on    *)
(* the multi-page path); it carries no since in latest mode, and in until  *)
(* mode (an until value is given) since = until - page_size * timeframe.   *)
(***************************************************************************)
C12_FirstPageParameters ==
    (ValidOhlcv /\ calls # <<>>) =>
        /\ calls[1].limit = FirstPageSize
        /\ calls[1].since = IF UntilGiven
                            THEN Some(req.until[1] - FirstPageSize * ReqTimeframeMs)
                            ELSE None

(***************************************************************************)
(* C13: validate_symbol never raises and returns a boolean: TRUE exactly   *)
(* when the exchange is initialized, its market list loads and the symbol  *)
(* is in it; FALSE for an unknown exchange, a load failure or an absent    *)
(* symbol.                                                                 *)
(***************************************************************************)
C13_ValidateSymbolTotal ==
    op = "validate_symbol" =>
        /\ pc = "done"
        /\ error = None
        /\ result \in BOOLEAN
        /\ result <=> /\ req.exchange_name \in exchanges
                      /\ Len(calls) = 1
                      /\ ~calls[1].raised
                      /\ \E i \in DOMAIN calls[1].markets : calls[1].markets[i] = req.symbol

C13_Witness ==
    /\ op = "validate_symbol"
    /\ req.exchange_name \in exchanges
    /\ Len(calls) = 1 /\ calls[1].raised
    /\ result = FALSE

\* the last call before call i whose page fetch returned a page (0 if none)
PrevPage(i) ==
    LET S == {j \in 1..(i - 1) : ~calls[j].raised}
    IN IF S = {} THEN 0 ELSE CHOOSE j \in S : \A k \in S : k <= j

\* the request runs in latest mode: no until value was given
LatestMode == op = "fetch_ohlcv" /\ ValidOhlcv /\ req.until = None

(***************************************************************************)
(* C14: in multi-page latest mode the first page is fetched with no since, *)
(* and every later page with since = t0 - page_size * timeframe_ms, t0     *)
(* the oldest timestamp of the previously fetched page and page_size the   *)
(* size of the page being requested (pages meeting the fetcher contract).  *)
(***************************************************************************)
C14_LatestNextSince ==
    (LatestMode /\ MultiPagePath /\ contract) =>
        \A i \in DOMAIN calls :
            IF PrevPage(i) = 0
            THEN calls[i].since = None
            ELSE calls[i].since =
                    Some(calls[PrevPage(i)].first[1] - calls[i].limit * ReqTimeframeMs)

\* what the code does: the next page starts one timeframe before t0
C14_LatestNextSinceOneTimeframe ==
    (LatestMode /\ MultiPagePath /\ contract) =>
        \A i \in DOMAIN calls :
            IF PrevPage(i) = 0
            THEN calls[i].since = None
            ELSE calls[i].since = Some(calls[PrevPage(i)].first[1] - ReqTimeframeMs)


\* the request runs in until mode as the code sees it: a non-zero until value
UntilMode == op = "fetch_ohlcv" /\ ValidOhlcv /\ Truthy(req.until)

\* the since value _fetch_single_page passes on for a computed since_time
SinceSent(since_time) == _fetch_single_page_since(Some(since_time))

(***************************************************************************)
(* C15: in multi-page until mode every page after the first is fetched     *)
(* with since = (oldest timestamp returned so far) - page_size *           *)
(* timeframe_ms, page_size the size of the page being requested (pages     *)
(* meeting the fetcher contract), so consecutive windows are adjacent.     *)
(***************************************************************************)
C15_UntilNextSince ==
    (UntilMode /\ MultiPagePath /\ contract) =>
        \A i \in DOMAIN calls :
            PrevPage(i) # 0 =>
                calls[i].since =
                    Some(calls[PrevPage(i)].first[1] - calls[i].limit * ReqTimeframeMs)

\* what the code does: the next window ends one timeframe before the oldest
\* candle, so it starts page_size + 1 timeframes before it
C15_UntilNextSinceSkipsOne ==
    (UntilMode /\ MultiPagePath /\ contract) =>
        \A i \in DOMAIN calls :
            PrevPage(i) # 0 =>
                calls[i].since =
                    SinceSent(calls[PrevPage(i)].first[1] - ReqTimeframeMs
                                - calls[i].limit * ReqTimeframeMs)


\* the page fetch a step of the pagination loop has issued
NewCall == calls'[Len(calls')]

\* a step of the pagination loop, from a state where the loop may run
LoopStep == op = "fetch_ohlcv" /\ InLoop /\ Len(calls') = Len(calls) + 1

\* the step's page fetch failed at a page size above the floor
FailsAboveFloor == NewCall.raised /\ NewCall.limit > RetryFloor

\* the step retries: the page fetch before it failed above the floor
IsRetry == calls # <<>> /\ LastCall.raised /\ LastCall.limit > RetryFloor

\* a failed page fetch collects nothing and counts nothing
FailureKeepsProgress ==
    /\ all_data' = all_data
    /\ remaining' = remaining
    /\ current_until' = current_until
    /\ current_since' = current_since
    /\ max_limit' = RetryFloor

\* the since of a retry in until mode: the window is recomputed to end where
\* the failed one ended
RetrySinceUntilMode ==
    LET since_time == current_until - RetryFloor * ReqTimeframeMs
    IN IF since_time = 0 THEN None ELSE Some(since_time)

(***************************************************************************)
(* C16: when a page fetch at page size > 50 fails, the retry carries the   *)
(* same since as the failed attempt, the failure changes neither the       *)
(* candles accumulated so far nor the remaining count, and the page size   *)
(* becomes 50.                                                             *)
(***************************************************************************)
C16_RetrySameSince ==
    [][LoopStep =>
        /\ FailsAboveFloor => FailureKeepsProgress
        /\ IsRetry => /\ NewCall.limit = RetryFloor
                      /\ NewCall.since = LastCall.since]_vars

(***************************************************************************)
(* C16, amended: as above, but the retry carries the same since only in    *)
(* latest mode; in until mode its since is recomputed for the smaller page *)
(* as current_until - 50 * timeframe_ms, so the window keeps its end.      *)
(***************************************************************************)
C16_RetrySameWindowEnd ==
    [][LoopStep =>
        /\ FailsAboveFloor => FailureKeepsProgress
        /\ IsRetry => /\ NewCall.limit = RetryFloor
                      /\ NewCall.since = IF pc = "until"
                                         THEN RetrySinceUntilMode
                                         ELSE LastCall.since]_vars

C16_Witness ==
    /\ op = "fetch_ohlcv" /\ MultiPagePath
    /\ Len(calls) >= 3
    /\ ~calls[1].raised /\ calls[1].kept > 0
    /\ calls[2].raised /\ calls[2].limit > RetryFloor
    /\ ~calls[3].raised /\ calls[3].limit = RetryFloor
    /\ calls[3].since # calls[2].since


\* the retries the call can still make: one until the page size has been reduced
RetryBudget == IF max_limit > RetryFloor THEN 1 ELSE 0

\* the variant of the pagination loops
Measure == remaining + RetryBudget

\* while a loop runs there is something left to fetch, and the fetches made
\* plus the variant stay within total_limit + 1
C17_FetchesBounded ==
    /\ op = "fetch_ohlcv" => Len(calls) <= req.limit + 2
    /\ (op = "fetch_ohlcv" /\ InLoop) =>
            /\ remaining >= 1
            /\ Len(calls) + Measure <= req.limit + 1

\* a page fetch after which the loop goes on makes the variant smaller
C17_VariantDecreases == (LoopStep /\ InLoop') => Measure' < Measure

(***************************************************************************)
(* C17: every fetch_ohlcv call terminates for any sequence of page-fetch   *)
(* outcomes, after at most total_limit + 2 page fetches: each loop round   *)
(* that does not end the call decreases remaining + (retries left), which  *)
(* is at least 1 while the loop runs and at most total_limit + 1 minus the *)
(* fetches made.                                                           *)
(***************************************************************************)
C17_Terminates == []C17_FetchesBounded /\ [][C17_VariantDecreases]_vars

C17_Witness ==
    /\ op = "fetch_ohlcv" /\ MultiPagePath /\ InLoop
    /\ Len(calls) = MaxFetches - 1
    /\ \E i \in DOMAIN calls : calls[i].raised
    /\ \E i \in DOMAIN calls : ~calls[i].raised /\ calls[i].n > calls[i].limit
    /\ \E i \in DOMAIN calls : ~calls[i].raised /\ calls[i].n < calls[i].limit


\* every page the fetcher returned so far is no longer than the limit asked for
NoOverlongPage == \A i \in DOMAIN calls : ~calls[i].raised => calls[i].n <= calls[i].limit

\* the step's page fetch returned a page that contributes candles
Contributes == ~NewCall.raised /\ NewCall.kept > 0

C18_CounterIsAccumulated ==
    (op = "fetch_ohlcv" /\ MultiPagePath) =>
        /\ completed = Len(all_data)
        /\ completed = KeptUpTo(Len(calls))
        /\ NoOverlongPage => completed <= req.limit

C18_CounterStep ==
    (LoopStep /\ MultiPagePath) =>
        /\ completed' >= completed
        /\ Contributes => completed' = completed + NewCall.kept
        /\ ~Contributes => completed' = completed

(***************************************************************************)
(* C18: during a multi-page request the progress counter's completed value *)
(* is updated after every page that contributes candles and then equals    *)
(* the number of candles accumulated so far; it never decreases, is not    *)
(* changed by a failed or empty page, and never exceeds the total          *)
(* requested when the page fetcher returns at most `limit` candles a call. *)
(***************************************************************************)
C18_ProgressCounter == []C18_CounterIsAccumulated /\ [][C18_CounterStep]_vars

C18_Witness ==
    /\ op = "fetch_ohlcv" /\ MultiPagePath
    /\ Len(calls) >= 3
    /\ ~calls[1].raised /\ calls[1].kept > 0
    /\ calls[2].raised
    /\ ~calls[3].raised /\ calls[3].kept > 0
    /\ completed = calls[1].kept + calls[3].kept
    /\ NoOverlongPage


\* a page fetch of the call has failed before call i
FailedBefore(i) == \E j \in 1..(i - 1) : calls[j].raised

(***************************************************************************)
(* C19: within one multi-page call, once a page fetch has failed every     *)
(* later page fetch uses page size <= 50, and a second page-fetch failure  *)
(* is fatal: it is the last fetch of the call and the call fails.  At most *)
(* one page-fetch failure is tolerated per request.                        *)
(***************************************************************************)
C19_OneFailureTolerated ==
    (op = "fetch_ohlcv" /\ MultiPagePath) =>
        \A i \in DOMAIN calls :
            FailedBefore(i) =>
                /\ calls[i].limit <= RetryFloor
                /\ calls[i].raised => (i = Len(calls) /\ pc = "failed" /\ error # None)

C19_Witness ==
    /\ op = "fetch_ohlcv" /\ MultiPagePath
    /\ Len(calls) = 4
    /\ calls[1].raised /\ ~calls[2].raised /\ ~calls[3].raised /\ calls[4].raised
    /\ calls[2].kept > 0 /\ calls[3].kept > 0
    /\ pc = "failed"


\* the number of symbols the loop has visited
Visited == Len(req.symbols) - Len(symbols_left)

\* the symbols visited so far, as a set
VisitedSymbols == {req.symbols[i] : i \in 1..Visited}

\* the position of the last visit of a symbol
LastVisit(s) ==
    CHOOSE i \in 1..Visited :
        req.symbols[i] = s /\ \A j \in 1..Visited : req.symbols[j] = s => j <= i

\* never raises, one entry per distinct symbol visited, one ticker fetch per
\* visit in order (none for an unknown exchange), and the call returns exactly
\* when the list is exhausted
MultipleTickersShape ==
    /\ pc \in {"tickers", "done"}
    /\ pc = "done" <=> symbols_left = <<>>
    /\ error = None
    /\ DOMAIN result = VisitedSymbols
    /\ IF req.exchange_name \in exchanges
       THEN /\ Len(calls) = Visited
            /\ \A i \in DOMAIN calls : calls[i].symbol = req.symbols[i]
       ELSE /\ calls = <<>>
            /\ \A s \in VisitedSymbols : IsErrorEntry(result[s])

(***************************************************************************)
(* C20: fetch_multiple_tickers never raises and isolates failures per      *)
(* symbol: the result has one entry per distinct requested symbol, a       *)
(* symbol whose ticker fetch fails gets an {'error': ...} entry, and the   *)
(* failure neither stops nor alters the fetches of the other symbols.      *)
(***************************************************************************)
C20_FailedFetchGivesErrorEntry ==
    op = "fetch_multiple_tickers" =>
        /\ MultipleTickersShape
        /\ \A i \in DOMAIN calls :
              calls[i].raised => IsErrorEntry(result[calls[i].symbol])
        /\ \A s \in VisitedSymbols :
              (\A i \in DOMAIN calls : calls[i].symbol = s => ~calls[i].raised)
                  => (req.exchange_name \in exchanges => result[s] = TickerDict(RawTicker(s)))

(***************************************************************************)
(* C20, amended: as above, but a symbol listed more than once is fetched   *)
(* once per occurrence and its entry is that of its last occurrence: an    *)
(* {'error': ...} entry exactly when that last fetch failed.               *)
(***************************************************************************)
C20_LastFetchGivesEntry ==
    op = "fetch_multiple_tickers" =>
        /\ MultipleTickersShape
        /\ req.exchange_name \in exchanges =>
              \A s \in VisitedSymbols :
                  IF calls[LastVisit(s)].raised
                  THEN IsErrorEntry(result[s])
                  ELSE result[s] = TickerDict(RawTicker(s))

C20_Witness ==
    /\ op = "fetch_multiple_tickers" /\ pc = "done"
    /\ req.exchange_name \in exchanges
    /\ Len(req.symbols) = 2 /\ req.symbols[1] # req.symbols[2]
    /\ calls[1].raised /\ ~calls[2].raised
    /\ IsErrorEntry(result[req.symbols[1]])
    /\ result[req.symbols[2]] = TickerDict(RawTicker(req.symbols[2]))

====
